---- MODULE Spec2Model ----
(***************************************************************************)
(* Model of the currency-snap rate/preference service (currencyService.ts) *)
(* over an asynchronous key-value store and a remote rate source.          *)
(*                                                                         *)
(* An action is one run of JavaScript between two suspension points: the   *)
(* completion of a storage read, a storage write or the network request,   *)
(* followed by the continuation of the async function up to the point      *)
(* where it issues its next request (or returns / throws).  The call of an *)
(* operation is merged with the completion of its first request, since the *)
(* call itself changes nothing.                                            *)
(***************************************************************************)
EXTENDS Integers, Sequences, FiniteSets, TLC

VARIABLES storage, lastWriter, now, ticks, conc, faults, scope, call, prev, conv, ui

vars == <<storage, lastWriter, now, ticks, conc, faults, scope, call, prev, conv, ui>>

(***************************************************************************)
(* Bounds of the model                                                     *)
(***************************************************************************)
NumCallers == 2
MaxTicks == 3
MaxConcTicks == 1
MaxEvents == 1
MaxAmount == 2

Callers == 1..NumCallers

(***************************************************************************)
(* Program constants                                                       *)
(***************************************************************************)
POPULAR_CURRENCIES == {"USD", "EUR", "JPY"}
CACHE_KEY == "currency_rates_cache"
FAVORITES_KEY == "favorite_currencies"
BASE_CURRENCY_KEY == "base_currency"
CACHE_DURATION == 6 * 60 * 60 * 1000

(***************************************************************************)
(* JavaScript values.  null and undefined are the empty tuple, a present   *)
(* value v is <<v>>; an object is a record whose fields are such options.  *)
(***************************************************************************)
Null == << >>
Some(v) == <<v>>

CacheKeyOf(baseCurrency) == CACHE_KEY \o "_" \o baseCurrency
Keys == {CacheKeyOf(c) : c \in POPULAR_CURRENCIES} \cup {FAVORITES_KEY, BASE_CURRENCY_KEY}

\* JSON.stringify of a CurrencyData object: properties whose value is
\* undefined are left out of the text.
StringifyData(data) ==
  [object |-> [k \in {f \in DOMAIN data : data[f] # Null} |-> data[k][1]]]

\* JSON.parse of a stored cache text, seen through property reads: a
\* property the text does not have reads as undefined.
ParseData(text) ==
  [k \in {"rates", "base", "timestamp"} |->
     IF k \in DOMAIN text.object THEN Some(text.object[k]) ELSE Null]

\* A stored text that is not JSON makes JSON.parse throw.
IsJSON(text) == "corrupt" \notin DOMAIN text
CorruptText == [corrupt |-> TRUE]

(***************************************************************************)
(* The remote rate source.  A reply is the outcome of fetch() followed by  *)
(* response.json().                                                        *)
(***************************************************************************)
\* Rates are fixed-point numbers in tenths: 9 is 0.9, 1500 is 150.
RateTables ==
  { [EUR |-> 9, JPY |-> 1500],
    [USD |-> 11, EUR |-> 10, JPY |-> 1600] }

Replies(baseCurrency) ==
  {[kind |-> k, rates |-> Null, base |-> Null] :
      k \in {"reject", "status", "notjson", "nulljson", "norates"}}
  \cup {[kind |-> "json", rates |-> Some(t), base |-> Some(baseCurrency)] : t \in RateTables}

NoReply == [kind |-> "none", rates |-> Null, base |-> Null]

\* ReplyThrows without the response.ok check.
ReplyThrows_NoStatusCheck(reply) == reply.kind \in {"reject", "notjson", "nulljson"}

\* The try block of getExchangeRates throws on this reply: fetch rejects,
\* response.ok is false, response.json() rejects, or data is null so that
\* data.rates throws.
ReplyThrows(reply) == reply.kind \in {"reject", "status", "notjson", "nulljson"}

(***************************************************************************)
(* Storage outcomes                                                        *)
(***************************************************************************)
\* Outcomes of one AsyncStorage request: it resolves, or (only when storage
\* faults are part of the environment) it rejects.
Outcomes == IF faults THEN {"ok", "reject"} ELSE {"ok"}

\* getCachedRates: the value the method resolves to, given the outcome of
\* its getItem request.
getCachedRates(store, baseCurrency, outcome) ==
  LET cached == store[CacheKeyOf(baseCurrency)] IN
  IF outcome # "ok" THEN Null
  ELSE IF cached = Null THEN Null
  ELSE IF ~IsJSON(cached[1]) THEN Null
  ELSE Some(ParseData(cached[1]))

\* cacheRates writing under the key of one fixed base currency.
cacheRates_FixedKey(store, baseCurrency, data, outcome) ==
  IF outcome # "ok" THEN store
  ELSE [store EXCEPT ![CacheKeyOf("USD")] = Some(StringifyData(data))]

\* cacheRates leaving an entry that is already there in place.
cacheRates_KeepFirst(store, baseCurrency, data, outcome) ==
  IF outcome # "ok" \/ store[CacheKeyOf(baseCurrency)] # Null THEN store
  ELSE [store EXCEPT ![CacheKeyOf(baseCurrency)] = Some(StringifyData(data))]

\* cacheRates: the store after the method's setItem request completed.
cacheRates(store, baseCurrency, data, outcome) ==
  IF outcome # "ok" THEN store
  ELSE [store EXCEPT ![CacheKeyOf(baseCurrency)] = Some(StringifyData(data))]

\* isCacheValid with the comparison turned around.
isCacheValid_Flipped(timestamp, t) ==
  IF timestamp = Null THEN FALSE ELSE t - timestamp[1] > CACHE_DURATION

\* isCacheValid accepting an entry aged exactly CACHE_DURATION.
isCacheValid_Inclusive(timestamp, t) ==
  IF timestamp = Null THEN FALSE ELSE t - timestamp[1] <= CACHE_DURATION

\* isCacheValid, with Date.now() = t.  An undefined timestamp makes the
\* difference NaN, and NaN < CACHE_DURATION is false.
isCacheValid(timestamp, t) ==
  IF timestamp = Null THEN FALSE ELSE t - timestamp[1] < CACHE_DURATION

(***************************************************************************)
(* Calls in flight                                                         *)
(***************************************************************************)
IdleCall ==
  [op |-> "none", pc |-> "idle", arg |-> "", store0 |-> [k \in Keys |-> Null],
   t0 |-> 0, tNet |-> 0, netCalls |-> 0, reply |-> NoReply,
   data |-> Null, ret |-> Null, favorites |-> << >>,
   storageCalls |-> 0, faulted |-> FALSE]

Finished(p) == call[p].pc \in {"idle", "done", "failed"}

\* Under sequential use one caller makes call after call, each when the
\* one before has completed; under concurrent use every caller makes one
\* call, at any time.
CanStart(p) ==
  IF conc THEN call[p].pc = "idle" ELSE (Finished(p) /\ p = 1)

\* The key of the entry an operation reads or writes.
KeyOf(op, arg) ==
  IF op \in {"getExchangeRates", "getCachedRates", "cacheRates"} THEN CacheKeyOf(arg)
  ELSE IF op \in {"getBase", "setBase"} THEN BASE_CURRENCY_KEY
  ELSE FAVORITES_KEY

\* A call remembers the store it found: the whole store under sequential
\* use, and under concurrent use, where the rest of the store changes under
\* the call, the entry the operation is about.
NewCall(op, arg) ==
  [IdleCall EXCEPT
     !.op = op, !.arg = arg, !.t0 = now,
     !.store0 = IF conc
                THEN [k \in Keys |-> IF k = KeyOf(op, arg) THEN storage[k] ELSE Null]
                ELSE storage]

\* The call c after one more AsyncStorage request with the given outcome.
Requested(c, outcome) ==
  [c EXCEPT !.storageCalls = @ + 1, !.faulted = @ \/ outcome # "ok"]

\* JSON.stringify / JSON.parse of the favorites array (an array of strings).
StringifyFavorites(favorites) == [array |-> favorites]
ParseFavorites(text) == text.array

\* getFavoriteCurrencies: the value the method resolves to, given the
\* outcome of its getItem request.
getFavoriteCurrencies(store, outcome) ==
  LET favorites == store[FAVORITES_KEY] IN
  IF outcome # "ok" THEN << >>
  ELSE IF favorites = Null THEN << >>
  ELSE IF ~IsJSON(favorites[1]) THEN << >>
  ELSE ParseFavorites(favorites[1])

\* setFavoriteCurrencies: the store after the method's setItem request
\* completed.
setFavoriteCurrencies(store, favorites, outcome) ==
  IF outcome # "ok" THEN store
  ELSE [store EXCEPT ![FAVORITES_KEY] = Some(StringifyFavorites(favorites))]

FavoritesOp(op) == op \in {"toggle", "add", "remove", "getFavorites", "setFavorites"}

\* What is remembered of the call a caller completed before its current one.
NoPrev == [op |-> "none", arg |-> "", ret |-> Null, favorites0 |-> << >>, faulted |-> FALSE]

Summary(c) ==
  [op |-> c.op,
   arg |-> IF FavoritesOp(c.op) \/ c.op = "setBase" THEN c.arg ELSE "",
   ret |-> IF c.op = "toggle" THEN c.ret ELSE Null,
   favorites0 |-> getFavoriteCurrencies(c.store0, "ok"),
   faulted |-> c.faulted]

NoConv == [amount |-> 0, from |-> "", to |-> "", rates |-> << >>, result |-> 0, called |-> FALSE]

\* The three persisted entities are independent and every operation
\* touches the key of one of them only; scope is the set of entities whose
\* operations are in use in a behaviour.
Parts == {"rates", "favorites", "base"}

\* The component is not mounted.
NoUI ==
  [mounted |-> FALSE, events |-> 0, baseLoad |-> "none", baseCurrency |-> "USD",
   currencyData |-> Null, fetchedFor |-> "", loading |-> FALSE, error |-> FALSE]

Init ==
  /\ storage = [k \in Keys |-> Null]
  /\ now = 0
  /\ ticks = 0
  /\ conc = FALSE
  /\ faults = FALSE
  /\ scope = Parts
  /\ lastWriter = [c \in POPULAR_CURRENCIES |-> 0]
  /\ ui = NoUI
  /\ call = [p \in Callers |-> IdleCall]
  /\ prev = NoPrev
  /\ conv = NoConv

(***************************************************************************)
(* Time                                                                    *)
(***************************************************************************)
TickSteps == {1, CACHE_DURATION - 1}

\* The clock advances; when callers run concurrently their calls overlap
\* within moments, so it advances fewer times and by the small step.
Tick ==
  /\ ticks < (IF conc THEN MaxConcTicks ELSE MaxTicks)
  /\ \E d \in (IF conc THEN {1} ELSE TickSteps) : now' = now + d
  /\ ticks' = ticks + 1
  /\ UNCHANGED <<storage, lastWriter, conc, faults, scope, call, prev, conv, ui>>

(***************************************************************************)
(* getExchangeRates                                                        *)
(***************************************************************************)
\* Lines 44-51: the call, the first cache read and the freshness check;
\* a fresh entry is returned, otherwise the network request is issued.
GetExchangeRates_Call(p, baseCurrency) ==
  /\ prev' = Summary(call[p])
  /\ \E outcome \in Outcomes :
       LET cachedData == getCachedRates(storage, baseCurrency, outcome)
           c == Requested(NewCall("getExchangeRates", baseCurrency), outcome)
       IN call' = [call EXCEPT ![p] =
            IF cachedData # Null /\ isCacheValid(cachedData[1].timestamp, now)
            THEN [c EXCEPT !.pc = "done", !.ret = cachedData]
            ELSE [c EXCEPT !.pc = "fetch", !.netCalls = 1]]

\* The currencies chosen as base currency; the third one is only converted
\* to.
Choices == {"USD", "EUR"}

\* A caller of the service calls getExchangeRates for any base currency.
GetExchangeRates_Start(p) ==
  /\ CanStart(p)
  /\ \E baseCurrency \in Choices : GetExchangeRates_Call(p, baseCurrency)
  /\ UNCHANGED <<storage, lastWriter, now, ticks, conc, faults, scope, conv, ui>>

\* Lines 51-63 and 66-70: the network request completes.  On a reply the
\* try block accepts, the snapshot is built and its write is issued; on any
\* throw the catch block issues the second cache read.
GetExchangeRates_Response(p) ==
  /\ call[p].pc = "fetch"
  /\ \E reply \in Replies(call[p].arg) :
       call' = [call EXCEPT ![p] =
         IF ReplyThrows(reply)
         THEN [@ EXCEPT !.pc = "fallback", !.reply = reply, !.tNet = now]
         ELSE [@ EXCEPT !.pc = "caching", !.reply = reply, !.tNet = now,
                        !.data = Some([rates |-> reply.rates,
                                       base |-> reply.base,
                                       timestamp |-> Some(now)])]]
  /\ UNCHANGED <<storage, lastWriter, now, ticks, conc, faults, scope, prev, conv, ui>>

\* getExchangeRates reading the entry back after writing it.
GetExchangeRates_Cached_ReadBack(p) ==
  /\ call[p].pc = "caching"
  /\ \E outcome \in Outcomes :
       /\ storage' = cacheRates(storage, call[p].arg, call[p].data[1], outcome)
       /\ lastWriter' = IF outcome = "ok"
                        THEN [lastWriter EXCEPT ![call[p].arg] = p] ELSE lastWriter
       /\ call' = [call EXCEPT ![p] =
            [Requested(Requested(@, outcome), outcome) EXCEPT
               !.pc = "done", !.ret = getCachedRates(storage', call[p].arg, outcome)]]
  /\ UNCHANGED <<now, ticks, conc, faults, scope, prev, conv, ui>>

\* Lines 63-65: the cache write completes and the snapshot is returned.
GetExchangeRates_Cached(p) ==
  /\ call[p].pc = "caching"
  /\ \E outcome \in Outcomes :
       /\ storage' = cacheRates(storage, call[p].arg, call[p].data[1], outcome)
       /\ lastWriter' = IF outcome = "ok"
                        THEN [lastWriter EXCEPT ![call[p].arg] = p] ELSE lastWriter
       /\ call' = [call EXCEPT ![p] =
            [Requested(@, outcome) EXCEPT !.pc = "done", !.ret = call[p].data]]
  /\ UNCHANGED <<now, ticks, conc, faults, scope, prev, conv, ui>>

\* The fallback returning the entry only when it is still fresh.
GetExchangeRates_Fallback_FreshOnly(p) ==
  /\ call[p].pc = "fallback"
  /\ \E outcome \in Outcomes :
       LET cachedData == getCachedRates(storage, call[p].arg, outcome) IN
       call' = [call EXCEPT ![p] =
         IF cachedData # Null /\ isCacheValid(cachedData[1].timestamp, now)
         THEN [Requested(@, outcome) EXCEPT !.pc = "done", !.ret = cachedData]
         ELSE [Requested(@, outcome) EXCEPT !.pc = "failed"]]
  /\ UNCHANGED <<storage, lastWriter, now, ticks, conc, faults, scope, prev, conv, ui>>

\* The fallback removing the entry it returns when that entry is stale.
GetExchangeRates_Fallback_Evict(p) ==
  /\ call[p].pc = "fallback"
  /\ \E outcome \in Outcomes :
       LET cachedData == getCachedRates(storage, call[p].arg, outcome) IN
       /\ call' = [call EXCEPT ![p] =
            IF cachedData # Null
            THEN [Requested(@, outcome) EXCEPT !.pc = "done", !.ret = cachedData]
            ELSE [Requested(@, outcome) EXCEPT !.pc = "failed"]]
       /\ storage' =
            IF cachedData # Null /\ ~isCacheValid(cachedData[1].timestamp, now)
            THEN [storage EXCEPT ![CacheKeyOf(call[p].arg)] = Null]
            ELSE storage
  /\ UNCHANGED <<now, lastWriter, ticks, conc, faults, scope, prev, conv, ui>>

\* Lines 70-75: the second cache read completes; any entry is returned,
\* otherwise the error is thrown.
GetExchangeRates_Fallback(p) ==
  /\ call[p].pc = "fallback"
  /\ \E outcome \in Outcomes :
       LET cachedData == getCachedRates(storage, call[p].arg, outcome) IN
       call' = [call EXCEPT ![p] =
         IF cachedData # Null
         THEN [Requested(@, outcome) EXCEPT !.pc = "done", !.ret = cachedData]
         ELSE [Requested(@, outcome) EXCEPT !.pc = "failed"]]
  /\ UNCHANGED <<storage, lastWriter, now, ticks, conc, faults, scope, prev, conv, ui>>

NextRates ==
  \/ Tick
  \/ \E p \in Callers : GetExchangeRates_Start(p)
  \/ \E p \in Callers : GetExchangeRates_Response(p)
  \/ \E p \in Callers : GetExchangeRates_Cached(p)
  \/ \E p \in Callers : GetExchangeRates_Fallback(p)

SpecRates == Init /\ [][NextRates]_vars

(***************************************************************************)
(* Favorites                                                               *)
(***************************************************************************)
Range(seq) == {seq[i] : i \in DOMAIN seq}

\* favorites.includes(currency)
Includes(favorites, currency) == currency \in Range(favorites)

\* Removal of the last element, whatever it is.
FilterOut_Pop(favorites, currency) ==
  IF favorites = << >> THEN << >> ELSE SubSeq(favorites, 1, Len(favorites) - 1)

\* favorites.filter(fav => fav !== currency)
FilterOut(favorites, currency) ==
  SelectSeq(favorites, LAMBDA fav : fav # currency)

\* Duplicate-free lists of currency codes.
FavLists ==
  {favorites \in UNION {[1..n -> POPULAR_CURRENCIES] : n \in 0..Cardinality(POPULAR_CURRENCIES)} :
     \A i, j \in DOMAIN favorites : favorites[i] = favorites[j] => i = j}

\* toggleFavoriteCurrency returning the membership it found.
ToggleReturn_Found(c) == IF c.op = "toggle" THEN Some(c.pc = "remove_write") ELSE Null

\* The value a favorites mutation returns when it completes from the given
\* position: toggleFavoriteCurrency returns false after its removal and
\* true after its addition; add and remove return nothing.
ToggleReturn(c) ==
  IF c.op = "toggle" THEN Some(c.pc # "remove_write") ELSE Null

\* Line 147: getFavoriteCurrencies called directly.
GetFavoriteCurrencies_Call(p) ==
  /\ CanStart(p)
  /\ \E outcome \in Outcomes :
       call' = [call EXCEPT ![p] =
         [Requested(NewCall("getFavorites", ""), outcome) EXCEPT
            !.pc = "done",
            !.favorites = getFavoriteCurrencies(storage, outcome),
            !.ret = Some(getFavoriteCurrencies(storage, outcome))]]
  /\ prev' = Summary(call[p])
  /\ UNCHANGED <<storage, lastWriter, now, ticks, conc, faults, scope, conv, ui>>

\* Line 157: setFavoriteCurrencies called directly.
SetFavoriteCurrencies_Call(p) ==
  /\ CanStart(p)
  /\ \E favorites \in FavLists, outcome \in Outcomes :
       /\ storage' = setFavoriteCurrencies(storage, favorites, outcome)
       /\ call' = [call EXCEPT ![p] =
            [Requested(NewCall("setFavorites", ""), outcome) EXCEPT
               !.pc = "done", !.favorites = favorites]]
  /\ prev' = Summary(call[p])
  /\ UNCHANGED <<now, lastWriter, ticks, conc, faults, scope, conv, ui>>

\* Lines 179-185: toggleFavoriteCurrency is called and its read completes;
\* it calls removeFavoriteCurrency or addFavoriteCurrency, whose own read
\* is then outstanding.
ToggleFavoriteCurrency_Start(p) ==
  /\ CanStart(p)
  /\ \E currency \in POPULAR_CURRENCIES, outcome \in Outcomes :
       LET favorites == getFavoriteCurrencies(storage, outcome) IN
       call' = [call EXCEPT ![p] =
         [Requested(NewCall("toggle", currency), outcome) EXCEPT
            !.favorites = favorites,
            !.pc = IF Includes(favorites, currency) THEN "remove_read" ELSE "add_read"]]
  /\ prev' = Summary(call[p])
  /\ UNCHANGED <<storage, lastWriter, now, ticks, conc, faults, scope, conv, ui>>

\* addFavoriteCurrency appending without looking for the currency first.
AddRead_NoCheck(p, c, outcome) ==
  LET favorites == getFavoriteCurrencies(storage, outcome) IN
  [Requested(c, outcome) EXCEPT !.favorites = Append(favorites, c.arg), !.pc = "add_write"]

\* Lines 165-170: the read of addFavoriteCurrency completes; the currency
\* is appended and the write issued unless it is already there.
AddRead(p, c, outcome) ==
  LET favorites == getFavoriteCurrencies(storage, outcome) IN
  IF ~Includes(favorites, c.arg)
  THEN [Requested(c, outcome) EXCEPT
          !.favorites = Append(favorites, c.arg), !.pc = "add_write"]
  ELSE [Requested(c, outcome) EXCEPT
          !.favorites = favorites, !.pc = "done", !.ret = ToggleReturn(c)]

AddFavoriteCurrency_Start(p) ==
  /\ CanStart(p)
  /\ \E currency \in POPULAR_CURRENCIES, outcome \in Outcomes :
       call' = [call EXCEPT ![p] = AddRead(p, NewCall("add", currency), outcome)]
  /\ prev' = Summary(call[p])
  /\ UNCHANGED <<storage, lastWriter, now, ticks, conc, faults, scope, conv, ui>>

AddFavoriteCurrency_Read(p) ==
  /\ call[p].pc = "add_read"
  /\ \E outcome \in Outcomes :
       call' = [call EXCEPT ![p] = AddRead(p, call[p], outcome)]
  /\ UNCHANGED <<storage, lastWriter, now, ticks, conc, faults, scope, prev, conv, ui>>

\* addFavoriteCurrency appending to the list the store holds when the write
\* is made instead of the list it read.
AddFavoriteCurrency_Write_Atomic(p) ==
  /\ call[p].pc = "add_write"
  /\ \E outcome \in Outcomes :
       LET current == getFavoriteCurrencies(storage, outcome) IN
       /\ storage' = setFavoriteCurrencies(storage,
                        IF Includes(current, call[p].arg) THEN current
                        ELSE Append(current, call[p].arg), outcome)
       /\ call' = [call EXCEPT ![p] =
            [Requested(@, outcome) EXCEPT !.pc = "done", !.ret = ToggleReturn(call[p])]]
  /\ UNCHANGED <<now, lastWriter, ticks, conc, faults, scope, prev, conv, ui>>

\* Lines 169-171 (and 186): the write of addFavoriteCurrency completes.
AddFavoriteCurrency_Write(p) ==
  /\ call[p].pc = "add_write"
  /\ \E outcome \in Outcomes :
       /\ storage' = setFavoriteCurrencies(storage, call[p].favorites, outcome)
       /\ call' = [call EXCEPT ![p] =
            [Requested(@, outcome) EXCEPT !.pc = "done", !.ret = ToggleReturn(call[p])]]
  /\ UNCHANGED <<now, lastWriter, ticks, conc, faults, scope, prev, conv, ui>>

\* Lines 173-176: the read of removeFavoriteCurrency completes; the
\* filtered list is written in every case.
RemoveRead(p, c, outcome) ==
  LET favorites == getFavoriteCurrencies(storage, outcome) IN
  [Requested(c, outcome) EXCEPT
     !.favorites = FilterOut(favorites, c.arg), !.pc = "remove_write"]

RemoveFavoriteCurrency_Start(p) ==
  /\ CanStart(p)
  /\ \E currency \in POPULAR_CURRENCIES, outcome \in Outcomes :
       call' = [call EXCEPT ![p] = RemoveRead(p, NewCall("remove", currency), outcome)]
  /\ prev' = Summary(call[p])
  /\ UNCHANGED <<storage, lastWriter, now, ticks, conc, faults, scope, conv, ui>>

RemoveFavoriteCurrency_Read(p) ==
  /\ call[p].pc = "remove_read"
  /\ \E outcome \in Outcomes :
       call' = [call EXCEPT ![p] = RemoveRead(p, call[p], outcome)]
  /\ UNCHANGED <<storage, lastWriter, now, ticks, conc, faults, scope, prev, conv, ui>>

\* Lines 176-177 (and 183): the write of removeFavoriteCurrency completes.
RemoveFavoriteCurrency_Write(p) ==
  /\ call[p].pc = "remove_write"
  /\ \E outcome \in Outcomes :
       /\ storage' = setFavoriteCurrencies(storage, call[p].favorites, outcome)
       /\ call' = [call EXCEPT ![p] =
            [Requested(@, outcome) EXCEPT !.pc = "done", !.ret = ToggleReturn(call[p])]]
  /\ UNCHANGED <<now, lastWriter, ticks, conc, faults, scope, prev, conv, ui>>

NextFavorites ==
  \/ \E p \in Callers : GetFavoriteCurrencies_Call(p)
  \/ \E p \in Callers : SetFavoriteCurrencies_Call(p)
  \/ \E p \in Callers : ToggleFavoriteCurrency_Start(p)
  \/ \E p \in Callers : AddFavoriteCurrency_Start(p)
  \/ \E p \in Callers : AddFavoriteCurrency_Read(p)
  \/ \E p \in Callers : AddFavoriteCurrency_Write(p)
  \/ \E p \in Callers : RemoveFavoriteCurrency_Start(p)
  \/ \E p \in Callers : RemoveFavoriteCurrency_Read(p)
  \/ \E p \in Callers : RemoveFavoriteCurrency_Write(p)

SpecFavorites == Init /\ [][NextFavorites]_vars

\* The favorites the store holds (empty when there is no entry).
PersistedFavorites ==
  IF storage[FAVORITES_KEY] = Null THEN << >> ELSE storage[FAVORITES_KEY][1].array

\* The caller's last two completed calls are toggleFavoriteCurrency(c) for
\* the same c, one right after the other.
ToggledTwice(p) ==
  /\ call[p].op = "toggle" /\ call[p].pc = "done"
  /\ prev.op = "toggle" /\ prev.arg = call[p].arg

\* C9 as stated: two toggles of c in sequence return true then false, and
\* the favorites afterwards are the favorites before the first call.
C9_TrueThenFalse ==
  \A p \in Callers :
    ToggledTwice(p) =>
      /\ prev.ret = Some(TRUE)
      /\ call[p].ret = Some(FALSE)
      /\ Range(PersistedFavorites) = Range(prev.favorites0)

\* C9 (amended): two toggles of c in sequence return true then false when
\* c was not a favorite before the first call, and false then true when it
\* was; the favorites afterwards hold the same codes as before the first
\* call, and are the same sequence when c was not a favorite before.
C9_ToggleTwiceRestores ==
  \A p \in Callers :
    ToggledTwice(p) =>
      LET was == call[p].arg \in Range(prev.favorites0) IN
      /\ prev.ret = Some(~was)
      /\ call[p].ret = Some(was)
      /\ Range(PersistedFavorites) = Range(prev.favorites0)
      /\ ~was => PersistedFavorites = prev.favorites0

\* A code that was not a favorite has been toggled twice on a list that
\* holds other codes, and the list is back as it was.
C9_Witness ==
  \E p \in Callers :
    /\ ToggledTwice(p)
    /\ call[p].arg \notin Range(prev.favorites0)
    /\ prev.favorites0 # << >>
    /\ call[p].ret = Some(FALSE)
    /\ PersistedFavorites = prev.favorites0

\* C10: the boolean toggleFavoriteCurrency(c) returns is the resulting
\* membership of c in the persisted favorites.
C10_ToggleReturnsMembership ==
  \A p \in Callers :
    (call[p].op = "toggle" /\ call[p].pc = "done") =>
      /\ call[p].ret \in {Some(TRUE), Some(FALSE)}
      /\ call[p].ret = Some(TRUE) <=> call[p].arg \in Range(PersistedFavorites)

\* Both results have been returned on lists that hold another code.
C10_Witness ==
  \E p \in Callers :
    /\ call[p].op = "toggle" /\ call[p].pc = "done"
    /\ call[p].ret = Some(FALSE)
    /\ PersistedFavorites # << >>
    /\ prev.op = "toggle" /\ prev.ret = Some(TRUE) /\ prev.arg # call[p].arg

NoDuplicates(favorites) ==
  \A i, j \in DOMAIN favorites : favorites[i] = favorites[j] => i = j

IndexOf(favorites, currency) ==
  CHOOSE i \in DOMAIN favorites : favorites[i] = currency

\* The codes of new that old already held stand in new in the order they
\* had in old, and the codes new to the list come after them.
OrderKept(old, new) ==
  \A i, j \in DOMAIN new :
    i < j =>
      /\ (new[i] \in Range(old) /\ new[j] \in Range(old))
           => IndexOf(old, new[i]) < IndexOf(old, new[j])
      /\ new[i] \notin Range(old) => new[j] \notin Range(old)

\* The favorites the store held when the call was made.
FavoritesAtCall(p) ==
  IF call[p].store0[FAVORITES_KEY] = Null THEN << >>
  ELSE call[p].store0[FAVORITES_KEY][1].array

Mutation(p) == call[p].op \in {"add", "remove", "toggle"}

\* C11: starting from a duplicate-free (or empty) favorites entry, after
\* any sequence of addFavoriteCurrency, removeFavoriteCurrency and
\* toggleFavoriteCurrency calls the persisted favorites hold no code twice,
\* the codes that remain keep their order, and a new code goes last.
C11_UniqueInInsertionOrder ==
  /\ NoDuplicates(PersistedFavorites)
  /\ \A p \in Callers :
       (Mutation(p) /\ call[p].pc = "done") =>
         OrderKept(FavoritesAtCall(p), PersistedFavorites)

\* A code has been removed from the middle of a list of three, and a code
\* has been added at the end of a list of two.
C11_Witness ==
  \E p \in Callers :
    /\ call[p].op = "toggle" /\ call[p].pc = "done"
    /\ Len(FavoritesAtCall(p)) = 3
    /\ call[p].arg = FavoritesAtCall(p)[2]
    /\ PersistedFavorites = <<FavoritesAtCall(p)[1], FavoritesAtCall(p)[3]>>
    /\ prev.op = "add" /\ Len(prev.favorites0) = 2
    /\ prev.arg = FavoritesAtCall(p)[3]

\* C12: addFavoriteCurrency(c) with c already a favorite and
\* removeFavoriteCurrency(c) with c not a favorite leave the persisted
\* favorites sequence as it was (addFavoriteCurrency does not write at all).
C12_NoOpWhenNothingToDo ==
  \A p \in Callers :
    call[p].pc = "done" =>
      /\ (call[p].op = "add" /\ call[p].arg \in Range(FavoritesAtCall(p)))
           => (PersistedFavorites = FavoritesAtCall(p) /\ storage = call[p].store0)
      /\ (call[p].op = "remove" /\ call[p].arg \notin Range(FavoritesAtCall(p)))
           => PersistedFavorites = FavoritesAtCall(p)

\* removeFavoriteCurrency of an absent code on a non-empty list, right
\* after addFavoriteCurrency of a code that was already there.
C12_Witness ==
  \E p \in Callers :
    /\ call[p].op = "remove" /\ call[p].pc = "done"
    /\ call[p].arg \notin Range(FavoritesAtCall(p))
    /\ Len(FavoritesAtCall(p)) = 2
    /\ PersistedFavorites = FavoritesAtCall(p)
    /\ prev.op = "add" /\ prev.arg \in Range(prev.favorites0)

(***************************************************************************)
(* Base currency                                                           *)
(***************************************************************************)
\* getBaseCurrency: the value the method resolves to, given the outcome of
\* its getItem request.  A missing entry and the empty string are falsy.
getBaseCurrency(store, outcome) ==
  LET baseCurrency == store[BASE_CURRENCY_KEY] IN
  IF outcome # "ok" THEN "USD"
  ELSE IF baseCurrency = Null \/ baseCurrency = Some("") THEN "USD"
  ELSE baseCurrency[1]

\* setBaseCurrency storing the JSON text of the code, quotes included.
setBaseCurrency_Stringified(store, currency, outcome) ==
  IF outcome # "ok" THEN store
  ELSE [store EXCEPT ![BASE_CURRENCY_KEY] = Some("\"" \o currency \o "\"")]

\* setBaseCurrency: the store after the method's setItem request completed.
setBaseCurrency(store, currency, outcome) ==
  IF outcome # "ok" THEN store
  ELSE [store EXCEPT ![BASE_CURRENCY_KEY] = Some(currency)]

\* getBaseCurrency letting a rejected read escape.
GetBaseCurrency_Call_NoCatch(p) ==
  /\ CanStart(p)
  /\ \E outcome \in Outcomes :
       call' = [call EXCEPT ![p] =
         IF outcome = "ok"
         THEN [Requested(NewCall("getBase", ""), outcome) EXCEPT
                 !.pc = "done", !.ret = Some(getBaseCurrency(storage, outcome))]
         ELSE [Requested(NewCall("getBase", ""), outcome) EXCEPT !.pc = "failed"]]
  /\ prev' = Summary(call[p])
  /\ UNCHANGED <<storage, lastWriter, now, ticks, conc, faults, scope, conv, ui>>

\* Lines 190-199: getBaseCurrency.
GetBaseCurrency_Call(p) ==
  /\ CanStart(p)
  /\ \E outcome \in Outcomes :
       call' = [call EXCEPT ![p] =
         [Requested(NewCall("getBase", ""), outcome) EXCEPT
            !.pc = "done", !.ret = Some(getBaseCurrency(storage, outcome))]]
  /\ prev' = Summary(call[p])
  /\ UNCHANGED <<storage, lastWriter, now, ticks, conc, faults, scope, conv, ui>>

\* Lines 201-207: setBaseCurrency.
SetBaseCurrency_Call(p) ==
  /\ CanStart(p)
  /\ \E currency \in POPULAR_CURRENCIES, outcome \in Outcomes :
       /\ storage' = setBaseCurrency(storage, currency, outcome)
       /\ call' = [call EXCEPT ![p] =
            [Requested(NewCall("setBase", currency), outcome) EXCEPT !.pc = "done"]]
  /\ prev' = Summary(call[p])
  /\ UNCHANGED <<now, lastWriter, ticks, conc, faults, scope, conv, ui>>

NextBase ==
  \/ \E p \in Callers : GetBaseCurrency_Call(p)
  \/ \E p \in Callers : SetBaseCurrency_Call(p)

(***************************************************************************)
(* The cache methods called on their own                                   *)
(***************************************************************************)
\* Lines 79-87: getCachedRates.
GetCachedRates_Call(p) ==
  /\ CanStart(p)
  /\ \E baseCurrency \in POPULAR_CURRENCIES, outcome \in Outcomes :
       call' = [call EXCEPT ![p] =
         [Requested(NewCall("getCachedRates", baseCurrency), outcome) EXCEPT
            !.pc = "done", !.ret = getCachedRates(storage, baseCurrency, outcome)]]
  /\ prev' = Summary(call[p])
  /\ UNCHANGED <<storage, lastWriter, now, ticks, conc, faults, scope, conv, ui>>

\* Lines 89-95: cacheRates, with a snapshot taken at the current instant.
CacheRates_Call(p) ==
  /\ CanStart(p)
  /\ \E baseCurrency \in POPULAR_CURRENCIES, rates \in RateTables, outcome \in Outcomes :
       LET data == [rates |-> Some(rates), base |-> Some(baseCurrency),
                    timestamp |-> Some(now)] IN
       /\ storage' = cacheRates(storage, baseCurrency, data, outcome)
       /\ call' = [call EXCEPT ![p] =
            [Requested(NewCall("cacheRates", baseCurrency), outcome) EXCEPT
               !.pc = "done", !.data = Some(data)]]
       /\ lastWriter' = IF outcome = "ok"
                        THEN [lastWriter EXCEPT ![baseCurrency] = p] ELSE lastWriter
  /\ prev' = Summary(call[p])
  /\ UNCHANGED <<now, ticks, conc, faults, scope, conv, ui>>

NextCache ==
  \/ \E p \in Callers : GetCachedRates_Call(p)
  \/ \E p \in Callers : CacheRates_Call(p)

(***************************************************************************)
(* Storage faults                                                          *)
(***************************************************************************)
\* The keys whose values the service decodes with JSON.parse.
DecodedKeys == {CacheKeyOf(c) : c \in POPULAR_CURRENCIES} \cup {FAVORITES_KEY}

\* The payload of an entry becomes undecodable.
Corrupt ==
  /\ faults
  /\ \A p \in Callers : Finished(p)
  /\ \E k \in DecodedKeys :
       /\ (k = FAVORITES_KEY) = ("favorites" \in scope)
       /\ storage[k] # Null
       /\ storage[k] # Some(CorruptText)
       /\ storage' = [storage EXCEPT ![k] = Some(CorruptText)]
  /\ UNCHANGED <<now, lastWriter, ticks, conc, faults, scope, call, prev, conv, ui>>

InitFaults ==
  /\ storage = [k \in Keys |-> Null]
  /\ now = 0
  /\ ticks = 0
  /\ conc = FALSE
  /\ faults = TRUE
  /\ scope \in {{part} : part \in Parts}
  /\ lastWriter = [c \in POPULAR_CURRENCIES |-> 0]
  /\ ui = NoUI
  /\ call = [p \in Callers |-> IdleCall]
  /\ prev = NoPrev
  /\ conv = NoConv

NextFaults ==
  \/ Corrupt
  \/ "rates" \in scope /\ NextCache
  \/ "favorites" \in scope /\ NextFavorites
  \/ "base" \in scope /\ NextBase

SpecFaults == InitFaults /\ [][NextFaults]_vars

(***************************************************************************)
(* The whole service, used by one caller at a time                         *)
(***************************************************************************)
InitService ==
  /\ storage = [k \in Keys |-> Null]
  /\ now = 0
  /\ ticks = 0
  /\ conc = FALSE
  /\ faults = FALSE
  /\ scope \in {{part} : part \in Parts}
  /\ lastWriter = [c \in POPULAR_CURRENCIES |-> 0]
  /\ call = [p \in Callers |-> IdleCall]
  /\ prev = NoPrev
  /\ conv = NoConv
  /\ ui = NoUI

NextService ==
  \/ "rates" \in scope /\ NextRates
  \/ "favorites" \in scope /\ NextFavorites
  \/ "base" \in scope /\ NextBase

SpecService == InitService /\ [][NextService]_vars

SpecBase == InitFaults /\ [][NextBase]_vars

\* C13: getBaseCurrency() right after setBaseCurrency(c) returns c when
\* neither request was rejected; getBaseCurrency() returns "USD" when the
\* store has no base-currency entry or its read is rejected.
C13_BaseCurrencyRoundTrip ==
  \A p \in Callers :
    (call[p].op = "getBase" /\ call[p].pc = "done") =>
      /\ (prev.op = "setBase" /\ ~prev.faulted /\ ~call[p].faulted)
           => call[p].ret = Some(prev.arg)
      /\ (call[p].store0[BASE_CURRENCY_KEY] = Null \/ call[p].faulted)
           => call[p].ret = Some("USD")

\* "EUR" has been read back right after it was set.
C13_Witness ==
  \E p \in Callers :
    /\ call[p].op = "getBase" /\ call[p].pc = "done"
    /\ prev.op = "setBase" /\ prev.arg = "EUR" /\ ~prev.faulted
    /\ call[p].ret = Some("EUR")

StorageOps ==
  {"getCachedRates", "cacheRates", "getFavorites", "setFavorites",
   "add", "remove", "toggle", "getBase", "setBase"}

\* The entry the call read was missing, undecodable, or its read was
\* rejected.
NothingReadable(p, key) ==
  \/ call[p].faulted
  \/ call[p].store0[key] = Null
  \/ call[p].store0[key] = Some(CorruptText)

\* C14: no storage fault (rejected read, rejected write, undecodable
\* payload) reaches the caller of a storage operation of the service: the
\* operation never throws, and a read that finds nothing usable returns
\* null, the empty list or "USD".
C14_StorageFaultsAreSwallowed ==
  \A p \in Callers :
    call[p].op \in StorageOps =>
      /\ call[p].pc # "failed"
      /\ call[p].pc = "done" =>
           /\ (call[p].op = "getCachedRates"
                 /\ NothingReadable(p, CacheKeyOf(call[p].arg)))
                => call[p].ret = Null
           /\ (call[p].op = "getFavorites" /\ NothingReadable(p, FAVORITES_KEY))
                => call[p].ret = Some(<< >>)
           /\ (call[p].op = "getBase"
                 /\ (call[p].faulted \/ call[p].store0[BASE_CURRENCY_KEY] = Null))
                => call[p].ret = Some("USD")

\* getFavoriteCurrencies has returned the empty list for an undecodable
\* entry, right after a toggle one of whose requests was rejected.
C14_Witness ==
  \E p \in Callers :
    /\ faults
    /\ call[p].op = "getFavorites" /\ call[p].pc = "done"
    /\ call[p].store0[FAVORITES_KEY] = Some(CorruptText)
    /\ call[p].ret = Some(<< >>)
    /\ prev.op = "toggle" /\ prev.faulted

\* C15 as stated: every operation performs at most one network call and
\* at most two storage calls.
C15_AtMostTwoStorageCalls ==
  \A p \in Callers :
    /\ call[p].netCalls <= 1
    /\ call[p].storageCalls <= 2

\* C15 (amended): every operation performs at most one network call and at
\* most two storage calls, except toggleFavoriteCurrency, which performs
\* at most three (its own read, then the read and the write of the
\* addFavoriteCurrency or removeFavoriteCurrency it calls).
C15_CallsPerOperation ==
  \A p \in Callers :
    /\ call[p].netCalls <= 1
    /\ call[p].storageCalls <= IF call[p].op = "toggle" THEN 3 ELSE 2
    /\ call[p].netCalls = 1 => call[p].op = "getExchangeRates"

\* A toggle has made its three storage calls.
C15_Witness ==
  \E p \in Callers :
    /\ call[p].op = "toggle" /\ call[p].pc = "done"
    /\ call[p].storageCalls = 3
    /\ ~faults

(***************************************************************************)
(* Concurrent callers                                                      *)
(***************************************************************************)
\* The favorites entry left by earlier sessions is any duplicate-free list,
\* or none.
InitConcurrent ==
  /\ \E favorites \in {Null} \cup {Some(StringifyFavorites(f)) : f \in FavLists} :
       storage = [k \in Keys |-> IF k = FAVORITES_KEY THEN favorites ELSE Null]
  /\ now = 0
  /\ ticks = 0
  /\ conc = TRUE
  /\ faults = FALSE
  /\ scope \in {{"rates"}, {"favorites"}}
  /\ scope = {"rates"} => storage[FAVORITES_KEY] = Null
  /\ lastWriter = [c \in POPULAR_CURRENCIES |-> 0]
  /\ call = [p \in Callers |-> IdleCall]
  /\ prev = NoPrev
  /\ conv = NoConv
  /\ ui = NoUI

\* Concurrent callers of getExchangeRates ask for the same base currency, so
\* that they contend for one cache entry.
ConcurrentBases == {"USD"}

GetExchangeRates_StartConcurrent(p) ==
  /\ CanStart(p)
  /\ \E baseCurrency \in ConcurrentBases : GetExchangeRates_Call(p, baseCurrency)
  /\ UNCHANGED <<storage, lastWriter, now, ticks, conc, faults, scope, conv, ui>>

NextRatesConcurrent ==
  \/ Tick
  \/ \E p \in Callers : GetExchangeRates_StartConcurrent(p)
  \/ \E p \in Callers : GetExchangeRates_Response(p)
  \/ \E p \in Callers : GetExchangeRates_Cached(p)
  \/ \E p \in Callers : GetExchangeRates_Fallback(p)

InitRatesConcurrent == InitConcurrent /\ scope = {"rates"}

SpecRatesConcurrent == InitRatesConcurrent /\ [][NextRatesConcurrent]_vars

InitFavoritesConcurrent == InitConcurrent /\ scope = {"favorites"}

\* Concurrent callers change the favorites: toggle, add and remove.
NextMutations ==
  \/ \E p \in Callers : ToggleFavoriteCurrency_Start(p)
  \/ \E p \in Callers : AddFavoriteCurrency_Start(p)
  \/ \E p \in Callers : AddFavoriteCurrency_Read(p)
  \/ \E p \in Callers : AddFavoriteCurrency_Write(p)
  \/ \E p \in Callers : RemoveFavoriteCurrency_Start(p)
  \/ \E p \in Callers : RemoveFavoriteCurrency_Read(p)
  \/ \E p \in Callers : RemoveFavoriteCurrency_Write(p)

SpecFavoritesConcurrent == InitFavoritesConcurrent /\ [][NextMutations]_vars

(***************************************************************************)
(* The CurrencyConverter component                                         *)
(***************************************************************************)
\* The component's state is ui; every getExchangeRates call it makes runs
\* in a free slot of call, which is released when loadExchangeRates has
\* handled the result.  The favorites the component loads and toggles live
\* in another part of the store and of the component state and are left out.

\* Lines 50-60: loadExchangeRates of the render whose state is u, up to the
\* await of getExchangeRates.  The call takes the first free slot.
LoadExchangeRates(p, u) ==
  /\ call[p].pc = "idle"
  /\ \A q \in Callers : call[q].pc = "idle" => p <= q
  /\ GetExchangeRates_Call(p, u.baseCurrency)
  /\ ui' = [u EXCEPT !.loading = TRUE, !.error = FALSE]

\* Lines 76-81: the component state becomes u; when that changes
\* baseCurrency the effect runs loadExchangeRates.
BaseCurrencySet(u) ==
  IF u.baseCurrency # ui.baseCurrency
  THEN \E p \in Callers : LoadExchangeRates(p, u)
  ELSE ui' = u /\ UNCHANGED <<call, prev>>

\* Lines 69-81: the component mounts; the first effect calls
\* loadBaseCurrency, the second loadExchangeRates for the initial "USD".
UI_Mount ==
  /\ ~ui.mounted
  /\ \E p \in Callers :
       LoadExchangeRates(p, [ui EXCEPT !.mounted = TRUE, !.baseLoad = "pending"])
  /\ UNCHANGED <<storage, lastWriter, now, ticks, conc, faults, scope, conv>>

\* Lines 31-39: the getBaseCurrency call of loadBaseCurrency resolves and
\* the saved base currency becomes the component's.
UI_LoadBaseCurrency ==
  /\ ui.baseLoad = "pending"
  /\ \E outcome \in Outcomes :
       BaseCurrencySet([ui EXCEPT !.baseCurrency = getBaseCurrency(storage, outcome),
                                  !.baseLoad = "done"])
  /\ UNCHANGED <<storage, lastWriter, now, ticks, conc, faults, scope, conv>>

\* The user touches the screen a bounded number of times.
CanTouch == ui.events < MaxEvents
Touched == [ui EXCEPT !.events = @ + 1]

\* Lines 93-100: handleCurrencyChange, with the write of setBaseCurrency.
HandleCurrencyChange(currency) ==
  /\ CanTouch
  /\ \E outcome \in Outcomes : storage' = setBaseCurrency(storage, currency, outcome)
  /\ BaseCurrencySet([Touched EXCEPT !.baseCurrency = currency])
  /\ UNCHANGED <<lastWriter, now, ticks, conc, faults, scope, conv>>

\* Line 211: the picker, rendered in every state of the mounted component.
UI_PickerChange(currency) ==
  /\ ui.mounted
  /\ HandleCurrencyChange(currency)

\* Lines 160-173 and 238: 'Set as Base' of a listed currency; the list is
\* rendered when there is a rate table and no load is shown.
UI_SetAsBase(currency) ==
  /\ ui.currencyData # Null
  /\ ~ui.loading
  /\ ui.baseCurrency # currency
  /\ HandleCurrencyChange(currency)

\* Lines 179-182 and 257: Refresh, rendered with the list.
UI_Refresh ==
  /\ CanTouch
  /\ ui.currencyData # Null
  /\ ~ui.loading
  /\ \E p \in Callers : LoadExchangeRates(p, Touched)
  /\ UNCHANGED <<storage, lastWriter, now, ticks, conc, faults, scope, conv>>

\* Lines 179-182 and 221-228: Retry, rendered while there is an error.
UI_Retry ==
  /\ CanTouch
  /\ ui.error
  /\ \E p \in Callers : LoadExchangeRates(p, Touched)
  /\ UNCHANGED <<storage, lastWriter, now, ticks, conc, faults, scope, conv>>

\* Lines 58-66: the getExchangeRates call of a loadExchangeRates resolved
\* or rejected; the result is stored and loading is cleared.
UI_LoadSettled(p) ==
  /\ call[p].op = "getExchangeRates"
  /\ call[p].pc \in {"done", "failed"}
  /\ ui' = IF call[p].pc = "done"
           THEN [ui EXCEPT !.currencyData = call[p].ret,
                           !.fetchedFor = call[p].arg, !.loading = FALSE]
           ELSE [ui EXCEPT !.error = TRUE, !.loading = FALSE]
  /\ call' = [call EXCEPT ![p] = IdleCall]
  /\ UNCHANGED <<storage, lastWriter, now, ticks, conc, faults, scope, prev, conv>>

\* What an earlier session left under the cache key of a base currency:
\* nothing, or a snapshot that has gone stale by now.
Leftovers(baseCurrency) ==
  {Null} \cup
  {Some(StringifyData([rates |-> Some(t), base |-> Some(baseCurrency),
                       timestamp |-> Some(0)])) : t \in RateTables}

\* The store of an earlier session holds any base currency, or none, and
\* for each currency a stale snapshot, or none.  The events of the session
\* modelled happen within one cache window, CACHE_DURATION after those
\* snapshots were taken.
InitUI ==
  /\ \E saved \in {Null} \cup {Some(c) : c \in Choices} :
       \E left \in [Choices -> UNION {Leftovers(c) : c \in Choices}] :
         /\ \A c \in Choices : left[c] \in Leftovers(c)
         /\ storage = [k \in Keys |->
              IF k = BASE_CURRENCY_KEY THEN saved
              ELSE IF \E c \in Choices : k = CacheKeyOf(c)
                   THEN left[CHOOSE c \in Choices : k = CacheKeyOf(c)]
                   ELSE Null]
  /\ now = CACHE_DURATION
  /\ ticks = 0
  /\ conc = TRUE
  /\ faults = FALSE
  /\ scope = {"rates", "base"}
  /\ lastWriter = [c \in POPULAR_CURRENCIES |-> 0]
  /\ call = [p \in Callers |-> IdleCall]
  /\ prev = NoPrev
  /\ conv = NoConv
  /\ ui = NoUI

NextUI ==
  \/ UI_Mount
  \/ UI_LoadBaseCurrency
  \/ \E currency \in Choices : UI_SetAsBase(currency)
  \/ \E currency \in Choices : UI_PickerChange(currency)
  \/ UI_Refresh
  \/ UI_Retry
  \/ \E p \in Callers : GetExchangeRates_Response(p)
  \/ \E p \in Callers : GetExchangeRates_Cached(p)
  \/ \E p \in Callers : GetExchangeRates_Fallback(p)
  \/ \E p \in Callers : UI_LoadSettled(p)

SpecUI == InitUI /\ [][NextUI]_vars

\* A getExchangeRates call has been made and has not resolved or rejected.
InFlight(p) == call[p].op = "getExchangeRates" /\ ~Finished(p)

\* C16: in every reachable state of the component at most one
\* getExchangeRates call is in flight.
C16_OneRequestAtATime ==
  Cardinality({p \in Callers : InFlight(p)}) <= 1

\* Lines 238-266: the list of converted amounts is rendered.
RendersAmounts == ui.currencyData # Null /\ ~ui.loading

\* C21: whenever the component renders converted amounts, the rate table it
\* passes to convertCurrency was fetched for the selected baseCurrency.
C21_TableIsForSelectedBase ==
  RendersAmounts => ui.fetchedFor = ui.baseCurrency

\* C22: loading is true whenever a getExchangeRates call started by
\* loadExchangeRates is in flight, and false once every started call has
\* completed and been handled.
C22_LoadingTracksRequests ==
  /\ (\E p \in Callers : InFlight(p)) => ui.loading
  /\ (ui.mounted /\ \A p \in Callers : call[p].pc = "idle") => ~ui.loading

(***************************************************************************)
(* convertCurrency                                                         *)
(***************************************************************************)
\* Numbers are fixed-point values in tenths (Scale = 10): an amount of 100
\* is 1000, a rate of 0.9 is 9.  Amounts are whole numbers, so that the
\* product of an amount and a rate is exact.
Scale == 10
Amounts == {Scale * a : a \in 0..MaxAmount} \cup {Scale * 100}
Rates == {0, 9, 1500}
ConvTables ==
  UNION {[held -> Rates] : held \in SUBSET POPULAR_CURRENCIES}

Times(x, y) == (x * y) \div Scale

\* rates[toCurrency] || 1
RateOrZero_DefaultOne(rates, toCurrency) ==
  IF toCurrency \in DOMAIN rates /\ rates[toCurrency] # 0
  THEN rates[toCurrency] ELSE Scale

\* rates[toCurrency] || 0: a missing entry reads as undefined, and
\* undefined and 0 are both falsy.
RateOrZero(rates, toCurrency) ==
  IF toCurrency \in DOMAIN rates /\ rates[toCurrency] # 0
  THEN rates[toCurrency] ELSE 0

\* convertCurrency without the early return for equal currencies.
convertCurrency_NoIdentity(amount, fromCurrency, toCurrency, rates) ==
  Times(amount, RateOrZero(rates, toCurrency))

convertCurrency(amount, fromCurrency, toCurrency, rates) ==
  IF fromCurrency = toCurrency
  THEN amount
  ELSE Times(amount, RateOrZero(rates, toCurrency))

ConvertCurrency ==
  /\ \E amount \in Amounts, fromCurrency \in POPULAR_CURRENCIES,
        toCurrency \in POPULAR_CURRENCIES, rates \in ConvTables :
       conv' = [amount |-> amount, from |-> fromCurrency, to |-> toCurrency,
                rates |-> rates, called |-> TRUE,
                result |-> convertCurrency(amount, fromCurrency, toCurrency, rates)]
  /\ UNCHANGED <<storage, lastWriter, now, ticks, conc, faults, scope, call, prev, ui>>

NextConvert == ConvertCurrency

SpecConvert == Init /\ [][NextConvert]_vars

\* C7: convertCurrency(a, c, c, rates) returns a, for every amount a
\* (0 included), every currency c and every rate table, with or without an
\* entry for c.
C7_ConvertIdentity ==
  (conv.called /\ conv.from = conv.to) => conv.result = conv.amount

\* A non-zero amount converted to its own currency under a table that holds
\* a rate other than 1 for it.
C7_Witness ==
  /\ conv.called /\ conv.from = conv.to
  /\ conv.amount = Scale * 100
  /\ conv.to \in DOMAIN conv.rates /\ conv.rates[conv.to] = 9
  /\ conv.result = conv.amount

ExampleRates == [EUR |-> 9, JPY |-> 1500]

\* C8: for from # to, convertCurrency returns amount x rates[to], taking
\* the rate as 0 when rates has no entry for to; with rates {EUR: 0.9,
\* JPY: 150} and amount 100 the results are 90 for EUR and 15000 for JPY.
C8_ConvertMultiplies ==
  (conv.called /\ conv.from # conv.to) =>
    /\ conv.to \in DOMAIN conv.rates
         => conv.result * Scale = conv.amount * conv.rates[conv.to]
    /\ conv.to \notin DOMAIN conv.rates => conv.result = 0
    /\ (conv.rates = ExampleRates /\ conv.amount = Scale * 100 /\ conv.from = "USD") =>
         /\ conv.to = "EUR" => conv.result = Scale * 90
         /\ conv.to = "JPY" => conv.result = Scale * 15000

\* A non-zero amount converted to a currency the table has no entry for.
C8_Witness ==
  /\ conv.called /\ conv.from # conv.to
  /\ conv.amount = Scale * 100
  /\ conv.to \notin DOMAIN conv.rates
  /\ conv.rates # << >>
  /\ conv.result = 0

(***************************************************************************)
(* Properties of getExchangeRates                                          *)
(***************************************************************************)
SixHours == 21600000

RatesCall(p) == call[p].op = "getExchangeRates"
Returned(p) == call[p].pc = "done"
Failed(p) == call[p].pc = "failed"

\* The cache entry the store held for the requested base when the call was
\* made (null when there was none).
HeldEntry(p) ==
  LET item == call[p].store0[CacheKeyOf(call[p].arg)] IN
  IF item = Null THEN Null ELSE Some(ParseData(item[1]))

\* The cache entry the store holds now for the requested base.
StoredEntry(p) ==
  LET item == storage[CacheKeyOf(call[p].arg)] IN
  IF item = Null THEN Null ELSE Some(ParseData(item[1]))

FreshAt(entry, t) ==
  /\ entry # Null
  /\ entry[1].timestamp # Null
  /\ t - entry[1].timestamp[1] < SixHours

HeldFresh(p) == FreshAt(HeldEntry(p), call[p].t0)
HeldStale(p) == HeldEntry(p) # Null /\ ~HeldFresh(p)

\* C1: a call of getExchangeRates(X) made while the store holds an entry
\* for X less than six hours old performs no network request and returns
\* exactly that entry.
C1_FreshHitNoNetwork ==
  \A p \in Callers :
    (RatesCall(p) /\ HeldFresh(p)) =>
      /\ Returned(p)
      /\ call[p].netCalls = 0
      /\ call[p].ret = HeldEntry(p)

\* A fresh hit has happened on an entry that is not brand new.
C1_Witness ==
  \E p \in Callers :
    /\ RatesCall(p) /\ HeldFresh(p) /\ Returned(p)
    /\ call[p].t0 - HeldEntry(p)[1].timestamp[1] = SixHours - 1

\* The network call failed in the sense of the error taxonomy: transport
\* error or non-success status.
NetworkError(reply) == reply.kind \in {"reject", "status"}

\* C2: with a stale entry for X in the store and a failing network call
\* (transport error or non-success status), getExchangeRates(X) returns
\* the stale entry instead of failing.
C2_StaleFallback ==
  \A p \in Callers :
    (RatesCall(p) /\ (Returned(p) \/ Failed(p)) /\ HeldStale(p)
       /\ NetworkError(call[p].reply)) =>
      /\ Returned(p)
      /\ call[p].ret = HeldEntry(p)

C2_Witness ==
  \E p \in Callers :
    /\ RatesCall(p) /\ Returned(p) /\ HeldStale(p)
    /\ call[p].reply.kind = "status"
    /\ call[p].ret = HeldEntry(p)

\* The network step yielded no snapshot: transport error, non-success
\* status, or a body that cannot be decoded into an object.
NetworkStepFails(reply) == reply.kind \in {"reject", "status", "notjson", "nulljson"}

\* C3: with no entry for X in the store and a failing network step,
\* getExchangeRates(X) fails with the rates-unavailable error and returns
\* no snapshot; and a call fails only in that situation.
C3_UnavailableOnlyWhenExhausted ==
  \A p \in Callers :
    RatesCall(p) =>
      /\ ((Returned(p) \/ Failed(p)) /\ HeldEntry(p) = Null
            /\ NetworkStepFails(call[p].reply))
           => (Failed(p) /\ call[p].ret = Null)
      /\ Failed(p) =>
           /\ HeldEntry(p) = Null
           /\ call[p].netCalls = 1
           /\ NetworkStepFails(call[p].reply)

C3_Witness ==
  \E p \in Callers :
    /\ RatesCall(p) /\ Failed(p)
    /\ HeldEntry(p) = Null
    /\ call[p].reply.kind = "reject"
    /\ \E c \in POPULAR_CURRENCIES : storage[CacheKeyOf(c)] # Null

\* C4: when getExchangeRates(X) found no fresh entry and the network step
\* yielded a snapshot, the returned snapshot carries the instant of the
\* reply as its timestamp, and on return the store's entry for X is the
\* returned snapshot, whatever entry was there before.
C4_SuccessStampsAndCaches ==
  \A p \in Callers :
    (RatesCall(p) /\ Returned(p) /\ call[p].netCalls = 1
       /\ ~NetworkStepFails(call[p].reply)) =>
      /\ call[p].ret # Null
      /\ call[p].ret[1].timestamp = Some(call[p].tNet)
      /\ call[p].ret[1].rates = call[p].reply.rates
      /\ StoredEntry(p) = call[p].ret

\* A stale entry has been overwritten by a newer snapshot with other rates.
C4_Witness ==
  \E p \in Callers :
    /\ RatesCall(p) /\ Returned(p) /\ call[p].netCalls = 1
    /\ call[p].reply.kind = "json"
    /\ HeldStale(p)
    /\ StoredEntry(p) = call[p].ret
    /\ call[p].ret[1].rates # HeldEntry(p)[1].rates
    /\ call[p].tNet > call[p].t0

\* The reply carried a payload that is not a rate table: not JSON, JSON
\* null, or a JSON object without rates.
MalformedPayload(reply) == reply.kind \in {"notjson", "nulljson", "norates"}

\* C5: a malformed payload is a failure of the network step: the entry for
\* X is not overwritten, the cached entry (even stale) is returned if there
\* is one, and otherwise the call fails.
C5_MalformedPayloadIsFailure ==
  \A p \in Callers :
    (RatesCall(p) /\ (Returned(p) \/ Failed(p))
       /\ MalformedPayload(call[p].reply)) =>
      /\ StoredEntry(p) = HeldEntry(p)
      /\ HeldEntry(p) # Null => (Returned(p) /\ call[p].ret = HeldEntry(p))
      /\ HeldEntry(p) = Null => Failed(p)

\* C6: getExchangeRates leaves the store as it found it whenever it returns
\* a cached entry or fails; the store differs from what the call found only
\* after a network step that yielded a snapshot.
C6_ReadOnlyFallbackPaths ==
  \A p \in Callers :
    RatesCall(p) =>
      /\ (Failed(p) \/ (Returned(p) /\ (call[p].netCalls = 0
                                         \/ NetworkStepFails(call[p].reply))))
           => storage = call[p].store0
      /\ storage # call[p].store0 =>
           /\ Returned(p)
           /\ call[p].netCalls = 1
           /\ call[p].reply.kind \in {"json", "norates"}

\* A stale fallback and a rates-unavailable failure have both happened on a
\* store that already holds entries.
C6_Witness ==
  \E p \in Callers :
    /\ RatesCall(p) /\ Returned(p) /\ call[p].netCalls = 1
    /\ NetworkStepFails(call[p].reply)
    /\ HeldStale(p)
    /\ storage = call[p].store0

CacheItem(store, baseCurrency) == store[CacheKeyOf(baseCurrency)]

\* C19: a cache entry for X, once there, stays: after every step (a step
\* of an operation or the passage of time) an entry for X is still there
\* and getCachedRates(X) returns it; when the entry changes, the new one
\* carries a later timestamp.
C19_EntriesAreNeverRemoved ==
  [][\A x \in POPULAR_CURRENCIES :
       CacheItem(storage, x) # Null =>
         /\ CacheItem(storage', x) # Null
         /\ getCachedRates(storage', x, "ok") = Some(ParseData(CacheItem(storage', x)[1]))
         /\ CacheItem(storage', x) # CacheItem(storage, x) =>
              ParseData(CacheItem(storage', x)[1]).timestamp[1]
                > ParseData(CacheItem(storage, x)[1]).timestamp[1]]_vars

\* An entry twice as old as the validity window is still returned by
\* getCachedRates, and another entry has been replaced meanwhile.
C19_Witness ==
  \E x \in POPULAR_CURRENCIES :
    /\ getCachedRates(storage, x, "ok") # Null
    /\ now - getCachedRates(storage, x, "ok")[1].timestamp[1] >= 2 * (SixHours - 1)
    /\ \E p \in Callers :
         /\ RatesCall(p) /\ Returned(p) /\ call[p].arg # x
         /\ HeldStale(p) /\ StoredEntry(p) # HeldEntry(p)

\* C20: getExchangeRates treats an entry as fresh iff now - timestamp is
\* less than 21600000 ms: it issues a network request for an entry aged
\* exactly six hours or more, and none for a younger one.
C20_FreshIffUnderSixHours ==
  \A p \in Callers :
    (RatesCall(p) /\ HeldEntry(p) # Null) =>
      (call[p].netCalls = 0 <=> call[p].t0 - HeldEntry(p)[1].timestamp[1] < 21600000)

\* A network request has been issued for an entry aged exactly six hours.
C20_Witness ==
  \E p \in Callers :
    /\ RatesCall(p) /\ HeldEntry(p) # Null
    /\ call[p].t0 - HeldEntry(p)[1].timestamp[1] = 21600000
    /\ call[p].netCalls = 1

(***************************************************************************)
(* Concurrent calls of getExchangeRates                                    *)
(***************************************************************************)
\* The call missed the cache, asked the network and got a reply the try
\* block accepted, wrote the snapshot and returned.
FetchedAndWrote(p) ==
  /\ RatesCall(p)
  /\ Returned(p)
  /\ call[p].netCalls = 1
  /\ ~ReplyThrows(call[p].reply)

\* The snapshot the call built from its own reply.
OwnSnapshot(p) ==
  Some([rates |-> call[p].reply.rates,
        base |-> call[p].reply.base,
        timestamp |-> Some(call[p].tNet)])

\* C17: when two calls of getExchangeRates for the same base both missed the
\* cache, both asked the network and both wrote the cache, each of them
\* returned the snapshot it fetched itself, and the cache entry is the
\* snapshot of whichever of them wrote last.
C17_LastWriteWins ==
  \A p, q \in Callers :
    (/\ p # q
     /\ FetchedAndWrote(p)
     /\ FetchedAndWrote(q)
     /\ call[p].arg = call[q].arg)
    => /\ call[p].ret = OwnSnapshot(p)
       /\ call[q].ret = OwnSnapshot(q)
       /\ lastWriter[call[p].arg] = p => StoredEntry(p) = OwnSnapshot(p)
       /\ lastWriter[call[p].arg] = q => StoredEntry(p) = OwnSnapshot(q)

\* Two calls were in flight together, both fetched and wrote, and the one
\* that wrote last had fetched the older snapshot, which the cache now holds.
C17_Witness ==
  \E p, q \in Callers :
    /\ p # q
    /\ conc
    /\ FetchedAndWrote(p)
    /\ FetchedAndWrote(q)
    /\ call[p].arg = call[q].arg
    /\ lastWriter[call[p].arg] = p
    /\ call[p].tNet < call[q].tNet
    /\ StoredEntry(p) = call[p].ret
    /\ StoredEntry(p) # call[q].ret

(***************************************************************************)
(* Concurrent favorites operations                                         *)
(***************************************************************************)
\* The favorites after toggleFavoriteCurrency(c) ran alone on the list.
Toggled(favorites, c) ==
  IF Includes(favorites, c) THEN FilterOut(favorites, c) ELSE Append(favorites, c)

\* C18: a favorites mutation persists the whole list it built in memory from
\* the list it read, whatever the store holds when the write is made; two
\* concurrent operations can therefore lose one caller's update.
C18_WholeListIsOverwritten ==
  [][\A p \in Callers :
       (call[p].pc \in {"add_write", "remove_write"} /\ call'[p].pc = "done")
       => PersistedFavorites' = call[p].favorites]_vars

\* Two callers toggled two different currencies on the same favorites, both
\* calls completed, and the persisted favorites are the result of neither
\* sequential order of the two toggles.
C18_Witness ==
  \E p, q \in Callers :
    /\ p # q
    /\ conc
    /\ call[p].op = "toggle" /\ call[p].pc = "done"
    /\ call[q].op = "toggle" /\ call[q].pc = "done"
    /\ call[p].arg # call[q].arg
    /\ \A r \in Callers \ {p, q} : call[r].pc = "idle"
    /\ FavoritesAtCall(p) = FavoritesAtCall(q)
    /\ LET F == FavoritesAtCall(p)
           c == call[p].arg
           d == call[q].arg
       IN PersistedFavorites \notin {Toggled(Toggled(F, c), d), Toggled(Toggled(F, d), c)}

====
